---- MODULE Spec2Model ----
(***************************************************************************)
(* Model of DCSync/network/LDAP.py (class LDAP) and                        *)
(* DCSync/structures/Target.py (class Target).                             *)
(*                                                                         *)
(* The process is sequential: constructing the client runs __getPort and   *)
(* __checkAuthentication, then the caller runs getAllUsers.  Every network  *)
(* round trip (a probe, a bind, a search page) is one step whose outcome   *)
(* the remote service chooses.                                             *)
(***************************************************************************)
EXTENDS Integers, Sequences, FiniteSets, TLC

VARIABLES
    target,       \* the Target object (Target.py)
    credentials,  \* the mode selectors of the Credentials object
    pc,           \* position of the process in LDAP.py
    op,           \* the public operation in progress
    status,       \* "running", "exited" (exit(1)) or "raised" (uncaught exception)
    raised,       \* the uncaught exception, when status = "raised"
    stack,        \* the activation records of the recursive LDAP.search
    ret,          \* the list returned by the outermost LDAP.search
    ldapConn,     \* the connection of the __Authentication call in progress
    nc,           \* the naming-context attributes of the LDAP object
    users,        \* the list returned by getAllUsers
    log,          \* what was handed to the logger, in order
    probes,       \* the anonymous binds of __tryLDAPS / __tryLDAP, in order
    wire,         \* the bind and search requests of __Authentication / search, in order
    listing,      \* server side: the result set of the paged search in progress
    served        \* server side: the pages sent for that search, in order

vars == <<target, credentials, pc, op, status, raised, stack, ret, ldapConn,
          nc, users, log, probes, wire, listing, served>>

----------------------------------------------------------------------------
(* Bounds of the model *)

\* the server serves at most this many pages for one search
MaxPages == 2
\* the server puts at most this many elements in one page
MaxPageLen == 2
\* the rootDSE carries at most this many namingContexts values
MaxNC == 6

----------------------------------------------------------------------------
(* Python values: None and the truth tests the code applies *)

None == <<>>
Some(v) == <<v>>
Val(o) == o[1]

\* `if x` on an Optional[int]: None and 0 are false
TruthyInt(o) == o # None /\ Val(o) # 0
\* `if x` on an Optional[bool]
TruthyBool(o) == o # None /\ Val(o) = TRUE
\* `if x` on an Optional[bytes]: None and b"" are false
TruthyBytes(o) == o # None /\ Val(o) # <<>>

\* `port or default` (LDAP.py lines 84 and 101)
PortOr(port, default) == IF TruthyInt(port) THEN Val(port) ELSE default

LDAPS_PORT == 636
LDAP_PORT == 389

----------------------------------------------------------------------------
(* Target.py *)

\* Target.__init__ and the class attributes tlsv1_2 = None, tlsv1 = None
NewTarget(remote, port, method_port) ==
    [remote |-> remote, port |-> port, method_port |-> method_port,
     tlsv1_2 |-> None, tlsv1 |-> None]

\* faulty variant, for C16: the legacy flag is left out of the disjunction
use_tls_ModernOnly(t) == t.tlsv1_2

\* Target.use_tls: `self.tlsv1_2 or self.tlsv1`
use_tls(t) == IF TruthyBool(t.tlsv1_2) THEN t.tlsv1_2 ELSE t.tlsv1

----------------------------------------------------------------------------
(* LDAP.__tryLDAPS, LDAP.__tryLDAP *)

\* what ldapConn.bind() of a probe can do
ProbeOutcomes == {"bound", "LDAPSocketOpenError", "LDAPSocketReceiveError"}

\* the ldap3.Server / ldap3.Connection a TLS probe builds (lines 84-88)
LDAPSConnection(proto, port) ==
    [use_ssl |-> TRUE, version |-> Some(proto), port |-> PortOr(port, LDAPS_PORT)]

\* the ldap3.Server / ldap3.Connection the plaintext probe builds (lines 101-104)
LDAPConnection(port) ==
    [use_ssl |-> FALSE, version |-> None, port |-> PortOr(port, LDAP_PORT)]

\* faulty variant, for C10: a response-read failure counts as a failed candidate
tryLDAPS_ReceiveFails(proto, port, outcome) ==
    IF outcome \in {"LDAPSocketOpenError", "LDAPSocketReceiveError"}
    THEN <<None, None>>
    ELSE <<Some(PortOr(port, LDAPS_PORT)), Some(TRUE)>>

\* faulty variant, for C2: the TLS probe records the plaintext port
tryLDAPS_WrongPort(proto, port, outcome) ==
    IF outcome = "LDAPSocketOpenError"
    THEN <<None, None>>
    ELSE <<Some(PortOr(port, LDAP_PORT)), Some(TRUE)>>

\* LDAP.__tryLDAPS: the (port, flag) pair it returns
tryLDAPS(proto, port, outcome) ==
    IF outcome = "LDAPSocketOpenError"
    THEN <<None, None>>
    ELSE <<Some(PortOr(port, LDAPS_PORT)), Some(TRUE)>>

\* LDAP.__tryLDAP: the port it returns
\* faulty variant, for C11: the plaintext probe reports its port even when
\* the connection could not be opened
tryLDAP_KeepsPort(port, outcome) == Some(PortOr(port, LDAP_PORT))

tryLDAP(port, outcome) ==
    IF outcome = "LDAPSocketOpenError"
    THEN None
    ELSE Some(PortOr(port, LDAP_PORT))

Probe(conn, outcome) ==
    [use_ssl |-> conn.use_ssl, version |-> conn.version, port |-> conn.port,
     outcome |-> outcome]

LogEntry(level, msg) == [level |-> level, msg |-> msg]

----------------------------------------------------------------------------
(* Initial state: the arguments of LDAP.__init__ *)

\* method_port as the caller built the Target: absent, 0, or an explicit port
CallerPorts == {None, Some(0), Some(3268)}

Init ==
    /\ target \in {NewTarget("dc01", None, p) : p \in CallerPorts}
    /\ credentials \in [doKerberos : BOOLEAN, doSimpleBind : BOOLEAN]
    /\ pc = "getPort"
    /\ op = "__init__"
    /\ status = "running"
    /\ raised = None
    /\ stack = <<>>
    /\ ret = None
    /\ ldapConn = None
    /\ nc = [namingContexts |-> None, defaultNamingContext |-> None,
             configurationNamingContext |-> None, schemaNamingContext |-> None,
             domainDnsZonesNamingContext |-> None,
             forestDnsZonesNamingContext |-> None]
    /\ users = None
    /\ log = <<>>
    /\ probes = <<>>
    /\ wire = <<>>
    /\ listing = <<>>
    /\ served = <<>>

----------------------------------------------------------------------------
(* LDAP.__getPort *)

\* faulty variant, for C3: a caller-supplied port does not skip negotiation
ReturnsEarly_Never(method_port) == FALSE

\* line 24: `if self.target.method_port`
ReturnsEarly(method_port) == TruthyInt(method_port)

\* lines 24-25: a truthy method_port returns at once
GetPortSkip ==
    /\ status = "running" /\ pc = "getPort"
    /\ ReturnsEarly(target.method_port)
    /\ pc' = "checkAuthentication"
    /\ UNCHANGED <<target, credentials, op, status, raised, stack, ret, ldapConn,
                   nc, users, log, probes, wire, listing, served>>

\* faulty variant, for C1: the legacy probe runs whatever the modern probe returned
AfterTLSv1_2_Always(flag) == "tryTLSv1"

\* line 29: `if self.target.tlsv1_2 is None`
AfterTLSv1_2(flag) == IF flag = None THEN "tryTLSv1" ELSE "checkPort"

\* line 32: `if self.target.tlsv1 is None`
AfterTLSv1(flag) == IF flag = None THEN "tryLDAP" ELSE "checkPort"

\* line 27
ProbeTLSv1_2 ==
    /\ status = "running"
    /\ pc = "getPort"
    /\ ~ReturnsEarly(target.method_port)
    /\ \E outcome \in ProbeOutcomes :
         LET r == tryLDAPS("PROTOCOL_TLSv1_2", target.method_port, outcome) IN
         /\ probes' = Append(probes,
               Probe(LDAPSConnection("PROTOCOL_TLSv1_2", target.method_port), outcome))
         /\ target' = [target EXCEPT !.method_port = r[1], !.tlsv1_2 = r[2]]
         /\ pc' = AfterTLSv1_2(r[2])
    /\ UNCHANGED <<credentials, op, status, raised, stack, ret, ldapConn,
                   nc, users, log, wire, listing, served>>

\* line 30
ProbeTLSv1 ==
    /\ status = "running" /\ pc = "tryTLSv1"
    /\ \E outcome \in ProbeOutcomes :
         LET r == tryLDAPS("PROTOCOL_TLSv1", target.method_port, outcome) IN
         /\ probes' = Append(probes,
               Probe(LDAPSConnection("PROTOCOL_TLSv1", target.method_port), outcome))
         /\ target' = [target EXCEPT !.method_port = r[1], !.tlsv1 = r[2]]
         /\ pc' = AfterTLSv1(r[2])
    /\ UNCHANGED <<credentials, op, status, raised, stack, ret, ldapConn,
                   nc, users, log, wire, listing, served>>

\* line 33 (with the debug message of line 100)
ProbeLDAP ==
    /\ status = "running" /\ pc = "tryLDAP"
    /\ \E outcome \in ProbeOutcomes :
         /\ probes' = Append(probes,
               Probe(LDAPConnection(target.method_port), outcome))
         /\ target' = [target EXCEPT
                          !.method_port = tryLDAP(target.method_port, outcome)]
    /\ log' = Append(log, LogEntry("debug", "LDAPS failed, trying with LDAP."))
    /\ pc' = "checkPort"
    /\ UNCHANGED <<credentials, op, status, raised, stack, ret, ldapConn,
                   nc, users, wire, listing, served>>

\* lines 35-37
CheckPort ==
    /\ status = "running" /\ pc = "checkPort"
    /\ IF target.method_port = None
       THEN /\ log' = Append(log,
                 LogEntry("error", "Impossible to communicate with the target"))
            /\ status' = "exited"
            /\ pc' = "exit"
       ELSE /\ pc' = "checkAuthentication"
            /\ UNCHANGED <<log, status>>
    /\ UNCHANGED <<target, credentials, op, raised, stack, ret, ldapConn,
                   nc, users, probes, wire, listing, served>>

----------------------------------------------------------------------------
(* LDAP.__checkAuthentication, first half, and LDAP.__Authentication *)

\* line 40, then the call of line 41
\* faulty variant, for C18: the authentication check rewrites the TLS flags
\* of the target as booleans
CheckAuthentication_NormalisesFlags ==
    /\ status = "running" /\ pc = "checkAuthentication"
    /\ log' = Append(log, LogEntry("debug", "Trying to connect"))
    /\ target' = [target EXCEPT !.tlsv1_2 = Some(TruthyBool(@)),
                                !.tlsv1 = Some(TruthyBool(@))]
    /\ pc' = "Authentication"
    /\ UNCHANGED <<credentials, op, status, raised, stack, ret, ldapConn,
                   nc, users, probes, wire, listing, served>>

CheckAuthentication ==
    /\ status = "running" /\ pc = "checkAuthentication"
    /\ log' = Append(log, LogEntry("debug", "Trying to connect"))
    /\ pc' = "Authentication"
    /\ UNCHANGED <<target, credentials, op, status, raised, stack, ret, ldapConn,
                   nc, users, probes, wire, listing, served>>

\* LDAP result codes the server may answer a bind with, and their ldap3 descriptions
ResultCodes == {0, 8, 49}

Description(code) ==
    CASE code = 0 -> "success"
      [] code = 8 -> "strongerAuthRequired"
      [] code = 49 -> "invalidCredentials"

\* what a bind round trip can do: a result, or a failed read of the response
BindOutcomes ==
    {[exc |-> None, result |-> Some(c)] : c \in ResultCodes}
      \cup {[exc |-> Some("LDAPSocketReceiveError"), result |-> None]}

\* lines 54-59: the ldap3.Tls object
ldapTls(t) ==
    IF TruthyBool(t.tlsv1_2) THEN Some("PROTOCOL_TLSv1_2")
    ELSE IF TruthyBool(t.tlsv1) THEN Some("PROTOCOL_TLSv1")
    ELSE None

\* lines 61-70: the ldap3.Server and ldap3.Connection, before the bind; result
\* is the result code of its bind, response and controls are ldapConn.response
\* and ldapConn.result['controls'] once a search ran on it (lines 154-157)
NewConnection(t, authentication, id) ==
    [id |-> id, remote |-> t.remote, port |-> Val(t.method_port),
     use_ssl |-> TruthyBool(use_tls(t)), tls |-> ldapTls(t),
     authentication |-> authentication,
     bound |-> FALSE, sasl_in_progress |-> FALSE, result |-> None,
     response |-> None, controls |-> None]

\* the bind request as it goes out
BindRequest(conn, mechanism) ==
    [type |-> "bindRequest", conn |-> conn.id, mechanism |-> mechanism,
     remote |-> conn.remote, port |-> conn.port, use_ssl |-> conn.use_ssl,
     tls |-> conn.tls, sasl_in_progress |-> conn.sasl_in_progress]

NextConnId == Cardinality({i \in 1..Len(wire) : wire[i].type = "bindRequest"}) + 1

\* what ldap3 leaves on the connection after a bind that got its response
Bound(conn, code) ==
    [conn EXCEPT !.result = Some(code), !.bound = (code = 0)]

\* the arguments of the search call of getNamingContexts (lines 182-187)
NamingContextsSearch ==
    [dn |-> <<>>, filter |-> <<"objectClass", "*">>, scope |-> "BASE",
     attributes |-> <<"namingContexts">>]

\* faulty variant, for C12: a search goes out on the connection at hand
SearchEntry_ReusesConnection == "search"

\* line 142: every activation of LDAP.search begins with __Authentication
SearchEntry == "Authentication"

\* a fresh activation of LDAP.search (lines 139-140)
NewFrame(args, cookie) ==
    [dn |-> args.dn, filter |-> args.filter, scope |-> args.scope,
     attributes |-> args.attributes, cookie |-> cookie, entries |-> <<>>]

\* faulty variant, for C5: the description of the bind result is not inspected
IsInvalidCredentials_Never(conn) == FALSE

\* line 77
IsInvalidCredentials(conn) ==
    Description(Val(conn.result)) = "invalidCredentials"

\* lines 77-81, and where __Authentication returns to: line 41 goes on to
\* getNamingContexts (line 44), line 142 goes on to the search request
\* faulty variant, for C14: invalid credentials on a continuation page are
\* logged and the activation returns what it holds instead of exiting
AuthenticationEnd_ReturnsPartial(conn) ==
    /\ ldapConn' = Some(conn)
    /\ IF IsInvalidCredentials(conn)
       THEN /\ log' = Append(log, LogEntry("error", "Invalid credentials !"))
            /\ status' = IF Len(stack) > 1 THEN status ELSE "exited"
            /\ pc' = IF Len(stack) > 1 THEN "return" ELSE "exit"
            /\ UNCHANGED <<raised, stack>>
       ELSE /\ IF stack = <<>>
               THEN /\ stack' = <<NewFrame(NamingContextsSearch, None)>>
                    /\ pc' = SearchEntry
               ELSE /\ pc' = "search"
                    /\ UNCHANGED stack
            /\ UNCHANGED <<log, status, raised>>

AuthenticationEnd(conn) ==
    /\ ldapConn' = Some(conn)
    /\ IF IsInvalidCredentials(conn)
       THEN /\ log' = Append(log, LogEntry("error", "Invalid credentials !"))
            /\ status' = "exited"
            /\ pc' = "exit"
            /\ UNCHANGED <<raised, stack>>
       ELSE /\ IF stack = <<>>
               THEN /\ stack' = <<NewFrame(NamingContextsSearch, None)>>
                    /\ pc' = SearchEntry
               ELSE /\ pc' = "search"
                    /\ UNCHANGED stack
            /\ UNCHANGED <<log, status, raised>>

\* an exception nothing in LDAP.py catches
Raise(conn, exc) ==
    /\ ldapConn' = Some(conn)
    /\ status' = "raised"
    /\ raised' = Some(exc)
    /\ pc' = "exit"
    /\ UNCHANGED <<log, stack>>

\* lines 63-65 and kerberosAuthentication up to the send of line 128
KerberosSend ==
    /\ status = "running" /\ pc = "Authentication"
    /\ credentials.doKerberos
    /\ LET conn == [NewConnection(target, "ANONYMOUS", NextConnId)
                       EXCEPT !.sasl_in_progress = TRUE] IN
         /\ ldapConn' = Some(conn)
         /\ wire' = Append(wire, BindRequest(conn, "GSS-SPNEGO"))
    /\ pc' = "kerberosResponse"
    /\ UNCHANGED <<target, credentials, op, status, raised, stack, ret,
                   nc, users, log, probes, listing, served>>

\* faulty variant, for C19: the result code of the SASL bind is not looked at
KerberosBindFailed_Never(code) == FALSE

\* line 132: `if response[0]['result'] != 0`
KerberosBindFailed(code) == code # 0

\* kerberosAuthentication from the response of line 128 on, then lines 77-81
KerberosResponse ==
    /\ status = "running" /\ pc = "kerberosResponse"
    /\ \E outcome \in BindOutcomes :
         LET conn == Val(ldapConn) IN
         IF outcome.exc # None
         THEN Raise(conn, Val(outcome.exc))
         ELSE IF KerberosBindFailed(Val(outcome.result))
         THEN Raise([conn EXCEPT !.sasl_in_progress = FALSE,
                                 !.result = outcome.result],
                    "Exception(response)")
         ELSE AuthenticationEnd([conn EXCEPT !.sasl_in_progress = FALSE,
                                             !.result = outcome.result,
                                             !.bound = TRUE])
    /\ UNCHANGED <<target, credentials, op, ret, nc, users, probes, wire, listing, served>>

\* lines 66-68, then lines 77-81
SimpleBind ==
    /\ status = "running" /\ pc = "Authentication"
    /\ ~credentials.doKerberos /\ credentials.doSimpleBind
    /\ LET conn == NewConnection(target, "SIMPLE", NextConnId) IN
         /\ wire' = Append(wire, BindRequest(conn, "SIMPLE"))
         /\ \E outcome \in BindOutcomes :
              IF outcome.exc # None
              THEN Raise(conn, Val(outcome.exc))
              ELSE AuthenticationEnd(Bound(conn, Val(outcome.result)))
    /\ UNCHANGED <<target, credentials, op, ret, nc, users, probes, listing, served>>

\* faulty variant, for C6: the NTLM bind is not guarded by the except clause
NTLMCatches_Nothing(exc) == FALSE

\* line 73: `except ldap3.core.exceptions.LDAPSocketReceiveError`
NTLMCatches(exc) == exc = "LDAPSocketReceiveError"

\* lines 69-75, then lines 77-81
NTLMBind ==
    /\ status = "running" /\ pc = "Authentication"
    /\ ~credentials.doKerberos /\ ~credentials.doSimpleBind
    /\ LET conn == NewConnection(target, "NTLM", NextConnId) IN
         /\ wire' = Append(wire, BindRequest(conn, "NTLM"))
         /\ \E outcome \in BindOutcomes :
              IF outcome.exc # None
              THEN IF NTLMCatches(Val(outcome.exc))
                   THEN /\ ldapConn' = Some(conn)
                        /\ log' = Append(log, LogEntry("error",
                              "Can't connect using NTLM, try with -simple-bind option"))
                        /\ status' = "exited"
                        /\ pc' = "exit"
                        /\ UNCHANGED <<raised, stack>>
                   ELSE Raise(conn, Val(outcome.exc))
              ELSE AuthenticationEnd(Bound(conn, Val(outcome.result)))
    /\ UNCHANGED <<target, credentials, op, ret, nc, users, probes, listing, served>>

----------------------------------------------------------------------------
(* The directory the server answers from *)

\* the i-th naming context of the directory, a DN
NCValue(i) == <<"DC", i>>

\* the rootDSE entry with k namingContexts values, as ldap3 hands it over
RootDSE(k) ==
    [type |-> "searchResEntry", dn |-> <<>>,
     attributes |-> [namingContexts |-> [i \in 1..k |-> NCValue(i)]]]

\* another entry, whose namingContexts values are not those of the rootDSE
OtherEntry ==
    [type |-> "searchResEntry", dn |-> <<"CN", 0>>,
     attributes |-> [namingContexts |-> [i \in 1..5 |-> NCValue(100 - i)]]]

\* what the server may hold as the result set of the base search on the empty
\* DN: nothing, the rootDSE alone, or the rootDSE followed by another entry
NCListings ==
    {<<>>} \cup {<<RootDSE(k)>> : k \in 0..MaxNC}
           \cup {<<RootDSE(k), OtherEntry>> : k \in (MaxNC - 2)..MaxNC}

\* characters of account names and their UTF-8 bytes (all ASCII)
Alphabet == <<"u", "$", "0", "1", "2", "3", "4", "5", "6", "7", "8", "9">>
Codes == <<117, 36, 48, 49, 50, 51, 52, 53, 54, 55, 56, 57>>

\* str.encode() on the server side
Encode(str) ==
    [i \in 1..Len(str) |->
        Codes[CHOOSE j \in 1..Len(Alphabet) : Alphabet[j] = str[i]]]

\* bytes.decode() (line 176)
Decode(bytes) ==
    [i \in 1..Len(bytes) |->
        Alphabet[CHOOSE j \in 1..Len(Codes) : Codes[j] = bytes[i]]]

\* the logon name of the i-th account of the directory; every third is a machine
UserName(i) ==
    IF i % 3 = 0 THEN <<"u", Alphabet[3 + (i % 10)], "$">>
    ELSE <<"u", Alphabet[3 + (i % 10)]>>

\* the i-th element of the account listing: an entry, or (every third, from the
\* second on) a referral, which is not a directory entry
UserElement(i) ==
    IF i % 3 = 2
    THEN [type |-> "searchResRef", uri |-> <<"ldap", i>>]
    ELSE [type |-> "searchResEntry", dn |-> <<"CN", i>>,
          raw_attributes |->
             [sAMAccountName |->
                 IF i % 2 = 0
                 THEN <<Encode(UserName(i)), Encode(<<"u">>)>>
                 ELSE <<Encode(UserName(i))>>]]

\* the result set of the account search: enough elements to fill every page
UserListing == [i \in 1..(MaxPages * MaxPageLen) |-> UserElement(i)]

\* the result sets the server may open for a search request
Listings(request) ==
    IF request.scope = "BASE" THEN NCListings ELSE {UserListing}

----------------------------------------------------------------------------
(* LDAP.search *)

PagedSize == 5000
SDFlagsOID == "1.2.840.113556.1.4.801"
PagedResultsOID == "1.2.840.113556.1.4.319"

\* the search request of lines 143-153 as it goes out on connection conn
SearchRequest(conn, f) ==
    [type |-> "searchRequest", conn |-> conn.id,
     search_base |-> f.dn, search_filter |-> f.filter, search_scope |-> f.scope,
     attributes |-> f.attributes,
     controls |-> <<SDFlagsOID, TRUE, <<48, 3, 2, 1, 7>>>>,
     paged_size |-> PagedSize, paged_cookie |-> f.cookie]

\* where the server resumes: the cookie it issued holds the position
Position(cookie) == IF cookie = None THEN 0 ELSE Val(cookie)[1]

\* a response control other than the paged-results control
ForeignControlOID == "1.2.840.113556.1.4.474"

\* the response controls the server may attach to a page that ends at position
\* pos: none, a control that is not the paged-results control, the
\* paged-results control with an empty cookie, or (while it is willing to
\* serve another page) with a cookie to resume at pos
ControlChoices(pos, depth) ==
    {None, Some([oid |-> ForeignControlOID]),
     Some([oid |-> PagedResultsOID, cookie |-> <<>>])}
      \cup (IF depth < MaxPages
            THEN {Some([oid |-> PagedResultsOID, cookie |-> <<pos>>])}
            ELSE {})

\* faulty variant, for C4: the continuation's results go in front of the page's
extend_Front(list, items) == items \o list

\* list.extend (lines 154 and 162)
extend(list, items) == list \o items

\* faulty variant, for C15: the cookie is re-encoded on its way to the next
\* request
ResponseCookie_Reencoded(controls) ==
    IF controls # None
    THEN Some(Val(controls).cookie \o Val(controls).cookie)
    ELSE None

\* lines 156-159: the cookie of the response's paged-results control
ResponseCookie(controls) ==
    IF controls # None THEN Some(Val(controls).cookie) ELSE None

\* line 157: the subscript ['1.2.840.113556.1.4.319'] of controls that do
\* not hold the paged-results control
RaisesKeyError(controls) ==
    IF controls = None THEN FALSE ELSE Val(controls).oid # PagedResultsOID

\* line 161: `if cookie`
Continues(cookie) == TruthyBytes(cookie)

\* lines 143-162, up to the recursive call: one page's round trip
SearchPage ==
    /\ status = "running" /\ pc = "search"
    /\ LET depth == Len(stack)
           f == stack[depth]
           pos == Position(f.cookie)
       IN
       /\ wire' = Append(wire, SearchRequest(Val(ldapConn), f))
       /\ \E L \in (IF f.cookie = None THEN Listings(f) ELSE {listing}) :
          \E n \in {m \in 0..MaxPageLen : pos + m <= Len(L)} :
          \E controls \in ControlChoices(pos + n, depth) :
             LET response == SubSeq(L, pos + 1, pos + n)
                 cookie == IF RaisesKeyError(controls) THEN None
                           ELSE ResponseCookie(controls)
                 g == [f EXCEPT !.entries = extend(f.entries, response),
                                !.cookie = cookie]
             IN
             /\ listing' = L
             /\ served' = IF f.cookie = None THEN <<response>>
                           ELSE Append(served, response)
             /\ ldapConn' = Some([Val(ldapConn) EXCEPT
                                     !.response = Some(response),
                                     !.controls = controls])
             /\ IF RaisesKeyError(controls)
                THEN /\ stack' = [stack EXCEPT ![depth].entries =
                                                  extend(@, response)]
                     /\ status' = "raised"
                     /\ raised' = Some("KeyError")
                     /\ pc' = "exit"
                ELSE /\ IF Continues(cookie)
                        THEN /\ stack' = Append([stack EXCEPT ![depth] = g],
                                                NewFrame(f, cookie))
                             /\ pc' = SearchEntry
                        ELSE /\ stack' = [stack EXCEPT ![depth] = g]
                             /\ pc' = "return"
                     /\ UNCHANGED <<status, raised>>
    /\ UNCHANGED <<target, credentials, op, ret, nc, users, log, probes>>

\* line 164, and the extend of line 162 in the caller's activation
SearchReturn ==
    /\ status = "running" /\ pc = "return"
    /\ LET depth == Len(stack)
           entries == stack[depth].entries
       IN
       IF depth > 1
       THEN /\ stack' = [SubSeq(stack, 1, depth - 1) EXCEPT
                            ![depth - 1].entries = extend(@, entries)]
            /\ UNCHANGED <<ret, pc>>
       ELSE /\ stack' = <<>>
            /\ ret' = Some(entries)
            /\ pc' = IF op = "__init__" THEN "getNamingContexts" ELSE "getAllUsers"
    /\ UNCHANGED <<target, credentials, op, status, raised, ldapConn,
                   nc, users, log, probes, wire, listing, served>>

----------------------------------------------------------------------------
(* LDAP.getNamingContexts and the rest of LDAP.__checkAuthentication *)

\* faulty variant, for C7: the configuration and schema contexts are taken in the other order
NamingContextIndex_Swapped(field) ==
    CASE field = "defaultNamingContext" -> 1
      [] field = "configurationNamingContext" -> 3
      [] field = "schemaNamingContext" -> 2
      [] field = "domainDnsZonesNamingContext" -> 4
      [] field = "forestDnsZonesNamingContext" -> 5

\* lines 190-194: the (1-based) position each attribute is read from
NamingContextIndex(field) ==
    CASE field = "defaultNamingContext" -> 1
      [] field = "configurationNamingContext" -> 2
      [] field = "schemaNamingContext" -> 3
      [] field = "domainDnsZonesNamingContext" -> 4
      [] field = "forestDnsZonesNamingContext" -> 5

\* the attributes assigned by lines 190-194, in the order of the lines
NamingContextFields ==
    <<"defaultNamingContext", "configurationNamingContext", "schemaNamingContext",
      "domainDnsZonesNamingContext", "forestDnsZonesNamingContext">>

\* faulty variant, for C8: a rootDSE with fewer than five values is accepted
RaisesIndexError_OnlyIfEmpty(response) == Len(response) = 0

\* lines 189-194: whether one of the subscripts raises IndexError
RaisesIndexError(response) ==
    \/ Len(response) = 0
    \/ \E j \in 1..Len(NamingContextFields) :
          NamingContextIndex(NamingContextFields[j])
             > Len(response[1].attributes.namingContexts)

\* lines 189-194: the attributes of the LDAP object after the assignments that
\* ran; they run in the order of the lines and stop at the first IndexError
AssignNamingContexts(old, response) ==
    IF Len(response) = 0 THEN old
    ELSE LET values == response[1].attributes.namingContexts
             Ran(j) == \A k \in 1..j :
                          NamingContextIndex(NamingContextFields[k]) <= Len(values)
             Line(f) == CHOOSE j \in 1..Len(NamingContextFields) :
                          NamingContextFields[j] = f
         IN [f \in DOMAIN old |->
               IF f = "namingContexts" THEN Some(values)
               ELSE IF Ran(Line(f)) THEN Some(values[NamingContextIndex(f)])
               ELSE old[f]]

\* getNamingContexts after its search returned (lines 189-194), inside the
\* try of lines 43-47, then line 49
GetNamingContexts ==
    /\ status = "running" /\ pc = "getNamingContexts"
    /\ nc' = AssignNamingContexts(nc, Val(ret))
    /\ IF RaisesIndexError(Val(ret))
       THEN /\ log' = Append(log, LogEntry("error", "Invalid credentials !"))
            /\ status' = "exited"
            /\ pc' = "exit"
       ELSE /\ log' = Append(log, LogEntry("debug", "Authentication success !"))
            /\ pc' = "constructed"
            /\ UNCHANGED status
    /\ UNCHANGED <<target, credentials, op, raised, stack, ret, ldapConn,
                   users, probes, wire, listing, served>>

----------------------------------------------------------------------------
(* LDAP.getAllUsers and LDAP.__getSAMAccountName *)

SAM_NORMAL_USER_ACCOUNT == 805306368
SAM_MACHINE_ACCOUNT == 805306369

\* the arguments of the search call of getAllUsers (lines 200-205)
AllUsersSearch(base) ==
    [dn |-> base,
     filter |-> <<"|", <<"sAMAccountType", SAM_NORMAL_USER_ACCOUNT>>,
                       <<"sAMAccountType", SAM_MACHINE_ACCOUNT>>>>,
     scope |-> "SUBTREE",
     attributes |-> <<"sAMAccountName">>]

\* line 172, negated: the element is a response object
IsResponseObject(entry) == entry.type = "searchResEntry"

RECURSIVE getSAMAccountName_LastValue(_)
\* faulty variant, for C9: the last value of the attribute is taken, not the first
getSAMAccountName_LastValue(response) ==
    IF response = <<>> THEN <<>>
    ELSE LET entry == Head(response)
             rest == getSAMAccountName_LastValue(Tail(response))
             values == entry.raw_attributes.sAMAccountName
         IN IF ~IsResponseObject(entry) THEN rest
            ELSE <<Decode(values[Len(values)])>> \o rest

RECURSIVE getSAMAccountName(_)
\* lines 168-179
getSAMAccountName(response) ==
    IF response = <<>> THEN <<>>
    ELSE LET entry == Head(response)
             rest == getSAMAccountName(Tail(response))
         IN IF ~IsResponseObject(entry) THEN rest
            ELSE <<Decode(entry.raw_attributes.sAMAccountName[1])>> \o rest

\* the caller invokes getAllUsers on the constructed client: lines 200-205 up
\* to the first __Authentication of the search
GetAllUsers ==
    /\ status = "running" /\ pc = "constructed"
    /\ op' = "getAllUsers"
    /\ stack' = <<NewFrame(AllUsersSearch(Val(nc.defaultNamingContext)), None)>>
    /\ ret' = None
    /\ pc' = SearchEntry
    /\ UNCHANGED <<target, credentials, status, raised, ldapConn,
                   nc, users, log, probes, wire, listing, served>>

\* line 207
GetAllUsersReturn ==
    /\ status = "running" /\ pc = "getAllUsers"
    /\ users' = Some(getSAMAccountName(Val(ret)))
    /\ pc' = "done"
    /\ UNCHANGED <<target, credentials, op, status, raised, stack, ret, ldapConn,
                   nc, log, probes, wire, listing, served>>

Next ==
    \/ GetPortSkip
    \/ ProbeTLSv1_2
    \/ ProbeTLSv1
    \/ ProbeLDAP
    \/ CheckPort
    \/ CheckAuthentication
    \/ KerberosSend
    \/ KerberosResponse
    \/ SimpleBind
    \/ NTLMBind
    \/ SearchPage
    \/ SearchReturn
    \/ GetNamingContexts
    \/ GetAllUsers
    \/ GetAllUsersReturn

Spec == Init /\ [][Next]_vars

----------------------------------------------------------------------------
(* Properties *)

Negotiating == pc \in {"getPort", "tryTLSv1", "tryLDAP", "checkPort"}

HandshakeFailed(probe) == probe.outcome = "LDAPSocketOpenError"

Last(seq) == seq[Len(seq)]

LastLogIs(level, msg) == log # <<>> /\ Last(log) = LogEntry(level, msg)

Logged(level, msg) == \E i \in 1..Len(log) : log[i] = LogEntry(level, msg)

\* the candidate a probe addressed, by the transport it used
IsModernTLS(probe) == probe.use_ssl /\ probe.version = Some("PROTOCOL_TLSv1_2")
IsLegacyTLS(probe) == probe.use_ssl /\ probe.version = Some("PROTOCOL_TLSv1")
IsPlaintext(probe) == ~probe.use_ssl /\ probe.version = None

\* C1: without a pre-supplied port, negotiation probes modern TLS, then legacy
\* TLS, then plaintext: each candidate at most once, a later candidate only
\* after every earlier one failed at handshake level, and none after the first
\* successful one.
C1_FallbackOrder ==
    /\ Len(probes) <= 3
    /\ Len(probes) >= 1 => IsModernTLS(probes[1])
    /\ Len(probes) >= 2 => IsLegacyTLS(probes[2])
    /\ Len(probes) >= 3 => IsPlaintext(probes[3])
    /\ \A i \in 1..Len(probes) : i < Len(probes) => HandshakeFailed(probes[i])
    /\ pc = "tryTLSv1" => Len(probes) = 1 /\ HandshakeFailed(probes[1])
    /\ pc = "tryLDAP" => Len(probes) = 2 /\ HandshakeFailed(probes[2])
    /\ (pc # "getPort" /\ probes = <<>>) => TruthyInt(target.method_port)

C1_Witness ==
    /\ pc = "checkAuthentication"
    /\ Len(probes) = 3
    /\ Last(probes).outcome = "bound"

\* C2: after a negotiation that does not terminate the process, port and flags
\* identify the first successful candidate: modern TLS gives 636 with only the
\* modern flag true, legacy TLS gives 636 with only the legacy flag true,
\* plaintext after two handshake failures gives 389 with neither flag true.
C2_ResolvedTransport ==
    (~Negotiating /\ probes # <<>> /\ ~HandshakeFailed(Last(probes))) =>
        CASE Len(probes) = 1 ->
                /\ target.method_port = Some(636)
                /\ target.tlsv1_2 = Some(TRUE)
                /\ ~TruthyBool(target.tlsv1)
          [] Len(probes) = 2 ->
                /\ target.method_port = Some(636)
                /\ ~TruthyBool(target.tlsv1_2)
                /\ target.tlsv1 = Some(TRUE)
          [] OTHER ->
                /\ target.method_port = Some(389)
                /\ ~TruthyBool(target.tlsv1_2)
                /\ ~TruthyBool(target.tlsv1)
                /\ ~TruthyBool(use_tls(target))

C2_Witness ==
    /\ pc = "checkAuthentication"
    /\ Len(probes) = 3
    /\ HandshakeFailed(probes[1]) /\ HandshakeFailed(probes[2])
    /\ Last(probes).outcome = "bound"
    /\ target.method_port = Some(389)
    /\ target.tlsv1_2 = None /\ target.tlsv1 = None

\* C3: a target that carries a caller-supplied port when the client is
\* constructed is never probed, and its port and TLS flags stay as they were
\* (both flags unset).  Stated as a step property: while the port is set and
\* no probe was made, no step probes or changes the target; the initial state
\* of such a run satisfies the premise with both flags unset.
C3_SuppliedPortSkips ==
    [][(TruthyInt(target.method_port) /\ probes = <<>>
          /\ target.tlsv1_2 = None /\ target.tlsv1 = None)
        => (target' = target /\ probes' = <<>>)]_vars

C3_Witness ==
    /\ pc = "done"
    /\ probes = <<>>
    /\ target.method_port = Some(3268)
    /\ target.tlsv1_2 = None /\ target.tlsv1 = None

RECURSIVE Flatten(_)
\* the concatenation of a sequence of pages
Flatten(pages) ==
    IF pages = <<>> THEN <<>> ELSE Head(pages) \o Flatten(Tail(pages))

SearchReturned == pc \in {"getNamingContexts", "getAllUsers"}

\* C4: search returns exactly the concatenation of the response elements of
\* the pages the server sent, in page order: nothing dropped, duplicated or
\* reordered.
C4_SearchConcatenatesPages ==
    SearchReturned => Val(ret) = Flatten(served)

C4_Witness ==
    /\ pc = "getAllUsers"
    /\ Len(served) = 2
    /\ Len(served[1]) = 2 /\ Len(served[2]) = 1
    /\ Len(Val(ret)) = 3
    /\ Val(ret)[1] = served[1][1]
    /\ Val(ret)[3] = served[2][1]

\* the bind of the connection in progress was answered invalidCredentials
BindSaidInvalidCredentials ==
    /\ ldapConn # None
    /\ Val(ldapConn).result # None
    /\ Description(Val(Val(ldapConn).result)) = "invalidCredentials"

\* nothing was sent after the bind request of the connection in progress
NothingSentAfterBind ==
    /\ wire # <<>>
    /\ Last(wire).type = "bindRequest"
    /\ Last(wire).conn = Val(ldapConn).id

FatalInvalidCredentials ==
    status = "exited" /\ LastLogIs("error", "Invalid credentials !")

\* C5 as claimed: for every mechanism, a bind answered invalidCredentials ends
\* in the fatal InvalidCredentials outcome and no search request follows it.
C5_Original ==
    BindSaidInvalidCredentials =>
        FatalInvalidCredentials /\ NothingSentAfterBind

\* C5 amended: with simple bind or NTLM, a bind answered invalidCredentials
\* ends in the fatal InvalidCredentials outcome; with Kerberos it ends in the
\* Kerberos bind failure (an exception carrying the response) instead; in every
\* case the operation stops and no search request follows that bind.
C5_InvalidCredentialsIsFatal ==
    BindSaidInvalidCredentials =>
        /\ NothingSentAfterBind
        /\ pc = "exit"
        /\ IF credentials.doKerberos
           THEN /\ status = "raised" /\ raised = Some("Exception(response)")
                /\ ~Logged("error", "Invalid credentials !")
           ELSE FatalInvalidCredentials

C5_Witness ==
    /\ BindSaidInvalidCredentials
    /\ ~credentials.doKerberos
    /\ FatalInvalidCredentials
    /\ Val(ldapConn).id > 1

\* the NTLM bind of the connection in progress got no response: the read failed
NTLMReceiveFailed ==
    /\ ldapConn # None
    /\ Val(ldapConn).authentication = "NTLM"
    /\ Val(ldapConn).result = None

\* C6: with NTLM selected, a bind that fails at the socket-receive layer ends
\* in the fatal MechanismRejected outcome with the message recommending
\* simple-bind, never in InvalidCredentials, and no search request follows.
C6_NTLMReceiveError ==
    NTLMReceiveFailed =>
        /\ ~credentials.doKerberos /\ ~credentials.doSimpleBind
        /\ status = "exited"
        /\ LastLogIs("error", "Can't connect using NTLM, try with -simple-bind option")
        /\ ~Logged("error", "Invalid credentials !")
        /\ NothingSentAfterBind

C6_Witness ==
    /\ NTLMReceiveFailed
    /\ status = "exited"
    /\ LastLogIs("error", "Can't connect using NTLM, try with -simple-bind option")

\* getNamingContexts has run on the response of its search
DiscoveryRan == op = "__init__" /\ ret # None /\ pc # "getNamingContexts"

\* the namingContexts values of the first entry of the response
FirstEntryValues == Val(ret)[1].attributes.namingContexts

\* C7: when the first entry of the response to the base search on the empty DN
\* has at least five namingContexts values, discovery sets the default,
\* configuration, schema, domain-DNS-zones and forest-DNS-zones contexts to
\* the first to fifth value, in that order, ignoring further values.
C7_NamingContextsInOrder ==
    (DiscoveryRan /\ Len(Val(ret)) >= 1 /\ Len(FirstEntryValues) >= 5) =>
        /\ pc = "constructed"
        /\ nc.defaultNamingContext = Some(FirstEntryValues[1])
        /\ nc.configurationNamingContext = Some(FirstEntryValues[2])
        /\ nc.schemaNamingContext = Some(FirstEntryValues[3])
        /\ nc.domainDnsZonesNamingContext = Some(FirstEntryValues[4])
        /\ nc.forestDnsZonesNamingContext = Some(FirstEntryValues[5])

C7_Witness ==
    /\ pc = "constructed"
    /\ Len(Val(ret)) = 2
    /\ Len(FirstEntryValues) = 6
    /\ nc.forestDnsZonesNamingContext = Some(NCValue(5))

\* an account search went out
EnumerationRan ==
    \E i \in 1..Len(wire) :
        wire[i].type = "searchRequest" /\ wire[i].search_scope = "SUBTREE"

\* C8: when the naming-context search returns no entry, or a first entry with
\* fewer than five namingContexts values, discovery is fatal: the
\* invalid-credentials error is reported and the process terminates, the
\* authentication-success state is never reached and no enumeration runs.
C8_MalformedDiscoveryIsFatal ==
    (DiscoveryRan /\ (Len(Val(ret)) = 0 \/ Len(FirstEntryValues) < 5)) =>
        /\ FatalInvalidCredentials
        /\ pc = "exit"
        /\ ~Logged("debug", "Authentication success !")
        /\ users = None
        /\ ~EnumerationRan

C8_Witness ==
    /\ DiscoveryRan
    /\ Len(Val(ret)) >= 1
    /\ Len(FirstEntryValues) = 4
    /\ FatalInvalidCredentials

C8_WitnessEmpty ==
    /\ DiscoveryRan
    /\ Len(Val(ret)) = 0
    /\ FatalInvalidCredentials

\* the logon names of the directory entries among the elements, in their order
RECURSIVE EntryNames(_)
EntryNames(elements) ==
    IF elements = <<>> THEN <<>>
    ELSE IF Head(elements).type = "searchResEntry"
         THEN <<UserName(Head(elements).dn[2])>> \o EntryNames(Tail(elements))
         ELSE EntryNames(Tail(elements))

\* getAllUsers has sent a page request, and nothing went out since
RequestJustSent ==
    /\ op = "getAllUsers"
    /\ \/ pc \in {"return", "getAllUsers", "done"}
       \/ pc = "Authentication" /\ Len(stack) >= 2

Opened(probe) == probe.outcome \in {"bound", "LDAPSocketReceiveError"}

\* C10: for each candidate, a probe whose connection opens but whose read of
\* the bind response fails is classified like one whose bind completes: the
\* candidate is successful, its port is recorded (and its TLS flag marked for
\* a TLS candidate) and no later candidate is probed.
C10_ReceiveFailureIsSuccess ==
    \A i \in 1..Len(probes) :
        Opened(probes[i]) =>
            /\ i = Len(probes)
            /\ pc \notin {"tryTLSv1", "tryLDAP"}
            /\ target.method_port = Some(probes[i].port)
            /\ IsModernTLS(probes[i]) => target.tlsv1_2 = Some(TRUE)
            /\ IsLegacyTLS(probes[i]) => target.tlsv1 = Some(TRUE)
            /\ status = "exited" =>
                  ~Logged("error", "Impossible to communicate with the target")

C10_Witness ==
    /\ pc = "checkAuthentication"
    /\ Len(probes) = 2
    /\ Last(probes).outcome = "LDAPSocketReceiveError"
    /\ target.method_port = Some(636)
    /\ target.tlsv1 = Some(TRUE)

\* all three candidates were probed and every handshake failed
AllCandidatesFailed ==
    /\ Len(probes) = 3
    /\ \A i \in 1..3 : HandshakeFailed(probes[i])

\* C11: when all three candidates fail at the handshake level, negotiation
\* reports that the target cannot be reached and terminates the process, and
\* in that run no authenticating bind and no search request is ever issued.
C11_TransportUnavailable ==
    AllCandidatesFailed =>
        /\ wire = <<>>
        /\ ldapConn = None
        /\ target.method_port = None
        /\ pc \in {"checkPort", "exit"}
        /\ pc = "exit" =>
              /\ status = "exited"
              /\ LastLogIs("error", "Impossible to communicate with the target")
              /\ ~Logged("debug", "Trying to connect")

C11_Witness ==
    /\ AllCandidatesFailed
    /\ IsModernTLS(probes[1]) /\ IsLegacyTLS(probes[2]) /\ IsPlaintext(probes[3])
    /\ status = "exited"
    /\ pc = "exit"

\* positions on the wire of the bind requests and of the search requests
BindRequests == {i \in 1..Len(wire) : wire[i].type = "bindRequest"}
PageRequests == {i \in 1..Len(wire) : wire[i].type = "searchRequest"}

\* position on the wire of the first request of the latest search; the model
\* runs the discovery search first and the enumeration search second
FirstPageRequest ==
    IF op = "__init__"
    THEN CHOOSE i \in PageRequests : \A j \in PageRequests : i <= j
    ELSE CHOOSE i \in PageRequests :
            /\ wire[i].search_scope = "SUBTREE"
            /\ \A j \in PageRequests :
                  wire[j].search_scope = "SUBTREE" => i <= j

\* C12: every page of a search performs one fresh connect-and-bind before its
\* search request: a search of k pages performs exactly k authentications, no
\* connection carries more than one search request, and the authentication
\* of a page starts only after the round trip of the page before it. Each
\* request is looked at when it is the last one sent.
C12_OneBindPerPage ==
    /\ (wire # <<>> /\ Last(wire).type = "searchRequest") =>
          /\ Len(wire) > 1
          /\ wire[Len(wire) - 1].type = "bindRequest"
          /\ wire[Len(wire) - 1].conn = Last(wire).conn
          /\ \A i \in 1..(Len(wire) - 2) : wire[i].conn # Last(wire).conn
    /\ (wire # <<>> /\ Last(wire).type = "bindRequest") =>
          \A i \in 1..(Len(wire) - 1) : wire[i].conn # Last(wire).conn
    /\ SearchReturned =>
          LET first == FirstPageRequest
              k == Len(served)
          IN  /\ Len(wire) = (first - 1) + 2 * k - 1
              /\ Cardinality({i \in BindRequests : i >= first - 1}) = k
              /\ Cardinality({i \in PageRequests : i >= first}) = k
              /\ \A n \in 1..k :
                    /\ (first - 1) + 2 * (n - 1) \in BindRequests
                    /\ first + 2 * (n - 1) \in PageRequests

C12_Witness ==
    /\ pc = "getAllUsers"
    /\ Len(served) = 2
    /\ Cardinality({i \in BindRequests : i >= FirstPageRequest - 1}) = 2
    /\ Cardinality({i \in PageRequests : i >= FirstPageRequest}) = 2
    /\ Cardinality({wire[i].conn : i \in 1..Len(wire)}) = Cardinality(BindRequests)

\* the connection at hand carried a search whose response has no
\* paged-results control among its controls, or has it with an empty cookie
FinalPageReceived ==
    /\ ldapConn # None
    /\ Val(ldapConn).response # None
    /\ IF Val(ldapConn).controls = None THEN TRUE
       ELSE IF Val(Val(ldapConn).controls).oid # PagedResultsOID THEN TRUE
       ELSE Val(Val(ldapConn).controls).cookie = <<>>

\* no request went out after the search request of the connection at hand
NothingSentAfterSearch ==
    /\ wire # <<>>
    /\ Last(wire).type = "searchRequest"
    /\ Last(wire).conn = Val(ldapConn).id

\* C13: after a page response whose paged-results control is absent or
\* carries an empty cookie, search issues no further authentication and no
\* further search request and returns the sequence accumulated so far: it
\* raises nothing, its activations are at their return, and once it has
\* returned the caller holds the concatenation of the pages served.
C13_FinalPageEndsSearch ==
    FinalPageReceived =>
        /\ NothingSentAfterSearch
        /\ raised = None
        /\ pc \notin {"search", "kerberosResponse"}
        /\ pc = "Authentication" =>
              /\ op = "getAllUsers"
              /\ Len(stack) = 1
              /\ Last(wire).search_scope = "BASE"
        /\ pc = "return" => status = "running" /\ Len(stack) >= 1
        /\ SearchReturned => Val(ret) = Flatten(served)

\* the Kerberos bind of the connection at hand was answered with a non-zero
\* result code
KerberosBindFailure ==
    /\ ldapConn # None
    /\ credentials.doKerberos
    /\ pc # "kerberosResponse"
    /\ Val(ldapConn).result # None
    /\ Val(Val(ldapConn).result) # 0

\* the authentication of a continuation page met a fatal condition
FatalOnContinuation ==
    /\ Len(stack) >= 2
    /\ BindSaidInvalidCredentials \/ NTLMReceiveFailed \/ KerberosBindFailure

\* C14: when invalid credentials, an NTLM rejection or a Kerberos bind
\* failure occurs while authenticating page N > 1, the run ends there and
\* the search returns nothing: what pages 1..N-1 delivered stays in the
\* abandoned activations and reaches neither the caller nor the client's
\* naming contexts or user list.
C14_NoPartialResult ==
    FatalOnContinuation =>
        /\ status \in {"exited", "raised"}
        /\ pc = "exit"
        /\ NothingSentAfterBind
        /\ ret = None
        /\ users = None
        /\ op = "__init__" =>
              \A j \in 1..Len(NamingContextFields) :
                  nc[NamingContextFields[j]] = None

C14_Witness ==
    /\ FatalOnContinuation
    /\ op = "getAllUsers"
    /\ status = "exited"
    /\ Len(stack[1].entries) = 2
    /\ ret = None /\ users = None

\* the cookie the server attached to the last page it served: the position
\* its listing is to be resumed at
CookieServed == <<Len(Flatten(served))>>

\* C15: the first page request of a search carries no cookie, and every
\* continuation request carries exactly the cookie the server returned with
\* the page before it, together with the base DN, filter, scope and
\* attributes of that page's request; every request asks for pages of 5000
\* and carries the security-descriptor control 1.2.840.113556.1.4.801 with
\* flag value 7.
C15_ContinuationRequest ==
    [][pc = "search" =>
         LET req == Last(wire') IN
         /\ Len(wire') = Len(wire) + 1
         /\ req.type = "searchRequest"
         /\ req.paged_size = 5000
         /\ req.controls = <<"1.2.840.113556.1.4.801", TRUE, <<48, 3, 2, 1, 7>>>>
         /\ IF Len(stack) = 1
            THEN /\ req.paged_cookie = None
                 /\ req.search_base = stack[1].dn
                 /\ req.search_filter = stack[1].filter
                 /\ req.search_scope = stack[1].scope
                 /\ req.attributes = stack[1].attributes
            ELSE LET prev == wire[Len(wire) - 1] IN
                 /\ prev.type = "searchRequest"
                 /\ req.paged_cookie = Some(CookieServed)
                 /\ req.search_base = prev.search_base
                 /\ req.search_filter = prev.search_filter
                 /\ req.search_scope = prev.search_scope
                 /\ req.attributes = prev.attributes]_vars

C15_Witness ==
    /\ pc = "return"
    /\ Len(stack) = 2
    /\ Len(served) = 2
    /\ Last(wire).type = "searchRequest"
    /\ Last(wire).search_scope = "SUBTREE"
    /\ Last(wire).paged_cookie = Some(<<2>>)
    /\ wire[Len(wire) - 2].paged_cookie = None

\* the transport of a connection or of a bind request agrees with the target
MatchesTarget(c) ==
    /\ c.remote = target.remote
    /\ target.method_port # None
    /\ c.port = Val(target.method_port)
    /\ c.use_ssl = (target.tlsv1_2 = Some(TRUE) \/ target.tlsv1 = Some(TRUE))
    /\ target.tlsv1_2 = Some(TRUE) => c.tls = Some("PROTOCOL_TLSv1_2")
    /\ target.tlsv1 = Some(TRUE) => c.tls = Some("PROTOCOL_TLSv1")
    /\ (target.tlsv1_2 = None /\ target.tlsv1 = None) =>
          ~c.use_ssl /\ c.tls = None

\* C16: every connection the authenticator builds targets the resolved port
\* and is encrypted exactly when one of the TLS flags is true, with the TLS
\* version of the true flag; with both flags unset, which includes a port
\* supplied by the caller, the connection is plaintext.
C16_ConnectionFollowsTarget ==
    /\ ldapConn # None => MatchesTarget(Val(ldapConn))
    /\ (wire # <<>> /\ Last(wire).type = "bindRequest") =>
          MatchesTarget(Last(wire))
    /\ Len(wire) >= 2 => MatchesTarget(wire[1]) /\ MatchesTarget(wire[2])

C16_Witness ==
    /\ target.tlsv1 = Some(TRUE)
    /\ target.method_port = Some(636)
    /\ Len(wire) >= 2
    /\ wire[2].type = "bindRequest"
    /\ wire[2].use_ssl
    /\ wire[2].tls = Some("PROTOCOL_TLSv1")
    /\ wire[2].port = 636

\* a caller-supplied port: no probe ran and the binds go out in plaintext
C16_WitnessSuppliedPort ==
    /\ probes = <<>>
    /\ target.method_port = Some(3268)
    /\ wire # <<>>
    /\ ~wire[1].use_ssl
    /\ wire[1].port = 3268

\* C17: in every state reachable through negotiation from a fresh target, at
\* most one of the two TLS-version flags is true.
C17_AtMostOneTLSFlag ==
    ~(target.tlsv1_2 = Some(TRUE) /\ target.tlsv1 = Some(TRUE))

C17_Witness ==
    /\ pc = "checkAuthentication"
    /\ Len(probes) = 2
    /\ target.tlsv1_2 = None
    /\ target.tlsv1 = Some(TRUE)

\* C18: once negotiation has finished, no later operation changes the
\* target's host, resolved port or TLS flags: authentication, the Kerberos
\* bind, searching, naming-context discovery and account enumeration only
\* read them.
C18_TargetFrozenAfterNegotiation ==
    [][~Negotiating => target' = target]_vars

C18_Witness ==
    /\ pc = "done"
    /\ credentials.doKerberos
    /\ Len(probes) = 1
    /\ target = [remote |-> "dc01", port |-> None, method_port |-> Some(636),
                 tlsv1_2 |-> Some(TRUE), tlsv1 |-> None]

\* the Kerberos bind of the connection at hand was answered with a result code
KerberosBindAnswered ==
    /\ ldapConn # None
    /\ credentials.doKerberos
    /\ pc # "kerberosResponse"
    /\ Val(ldapConn).result # None

\* C19: in the Kerberos bind the SASL-in-progress marker is set before the
\* bind request is sent; a non-zero result code raises the Kerberos bind
\* failure, which carries the raw response, and the connection is never
\* marked bound; on a zero result code the connection is marked bound and
\* the marker is cleared.
C19_KerberosBind ==
    /\ (wire # <<>> /\ Last(wire).type = "bindRequest") =>
          (Last(wire).mechanism = "GSS-SPNEGO") = credentials.doKerberos
    /\ (wire # <<>> /\ Last(wire).type = "bindRequest"
          /\ Last(wire).mechanism = "GSS-SPNEGO") =>
          Last(wire).sasl_in_progress
    /\ pc = "kerberosResponse" =>
          /\ Val(ldapConn).sasl_in_progress
          /\ ~Val(ldapConn).bound
          /\ NothingSentAfterBind
    /\ KerberosBindAnswered =>
          IF Val(Val(ldapConn).result) # 0
          THEN /\ status = "raised"
               /\ raised = Some("Exception(response)")
               /\ ~Val(ldapConn).bound
               /\ NothingSentAfterBind
          ELSE /\ Val(ldapConn).bound
               /\ ~Val(ldapConn).sasl_in_progress
               /\ raised # Some("Exception(response)")

C19_Witness ==
    /\ KerberosBindAnswered
    /\ Val(ldapConn).result = Some(8)
    /\ status = "raised"
    /\ ~Val(ldapConn).bound
    /\ Last(wire).mechanism = "GSS-SPNEGO"
    /\ Last(wire).sasl_in_progress

\* a Kerberos bind answered with result code zero, then used for a search
C19_WitnessBound ==
    /\ KerberosBindAnswered
    /\ Val(ldapConn).result = Some(0)
    /\ Val(ldapConn).bound
    /\ Val(ldapConn).response # None

\* construction completed: LDAP.__init__ returned to its caller
Constructed == pc = "constructed" \/ op = "getAllUsers"

\* C20: whenever construction completes without terminating the process,
\* the resolved port and all five naming-context fields are set, so that
\* account enumeration never runs with an undefined default naming context;
\* construction runs negotiation, then a stand-alone authentication, then
\* naming-context discovery, in that order.
C20_ConstructionEstablishes ==
    /\ Constructed =>
          /\ target.method_port # None
          /\ \A j \in 1..Len(NamingContextFields) :
                nc[NamingContextFields[j]] # None
          /\ LastLogIs("debug", "Authentication success !") \/ op = "getAllUsers"
    /\ (wire # <<>> /\ Last(wire).type = "searchRequest"
          /\ Last(wire).search_scope = "SUBTREE") =>
          /\ Constructed
          /\ Last(wire).search_base = Val(nc.defaultNamingContext)
    /\ Negotiating => wire = <<>> /\ ~Logged("debug", "Trying to connect")
    /\ wire # <<>> =>
          /\ Logged("debug", "Trying to connect")
          /\ wire[1].type = "bindRequest"
    /\ Len(wire) >= 2 =>
          /\ wire[2].type = "bindRequest"
          /\ wire[2].conn # wire[1].conn
    /\ Len(wire) >= 3 =>
          /\ wire[3].type = "searchRequest"
          /\ wire[3].conn = wire[2].conn
          /\ wire[3].search_scope = "BASE"
          /\ wire[3].attributes = <<"namingContexts">>

C20_Witness ==
    /\ pc = "constructed"
    /\ Len(probes) = 3
    /\ target.method_port = Some(389)
    /\ Len(wire) = 3
    /\ nc.defaultNamingContext = Some(NCValue(1))
    /\ nc.forestDnsZonesNamingContext = Some(NCValue(5))

====
